---- MODULE Spec2Model ----
(***************************************************************************)
(* Model of src/foundry-agent-tool.py: validate_content_tool writes the    *)
(* content to a temporary file, runs the external validator on it, turns   *)
(* the validator's emoji-tagged output lines into a result dict and        *)
(* unlinks the temporary file.                                             *)
(*                                                                         *)
(* Text is a sequence of characters.  The five marker glyphs are the       *)
(* characters "RED" (U+1F534), "YELLOW" (U+1F7E1), "BLUE" (U+1F535),       *)
(* "ORANGE" (U+1F7E0) and "BULB" (U+1F4A1); "SP" is a blank, "NL" a line   *)
(* feed, "SURROGATE" a lone surrogate (a str character UTF-8 cannot        *)
(* encode); "a" and "b" are ordinary letters.                              *)
(***************************************************************************)
EXTENDS Integers, Sequences, FiniteSets, TLC

VARIABLES
    pc,         \* position in validate_content_tool
    content,    \* argument content
    filename,   \* argument filename
    tempfiles,  \* names of the temporary files that exist on disk
    fbody,      \* what has been written to the temporary file
    temp_path,  \* local temp_path (<<>> while unassigned)
    cmd,        \* argv handed to subprocess.run (<<>> before the launch)
    result,     \* the CompletedProcess: [returncode, stdout, stderr]
    report,     \* ghost: the findings the validator rendered on stdout
    lines,      \* local lines (fail branch)
    origin,     \* ghost: origin[k] is the index in lines issue k was built from
    pending,    \* the return value or exception travelling through finally
    outcome     \* what the caller observes once the call has completed

vars == <<pc, content, filename, tempfiles, fbody, temp_path, cmd, result,
          report, lines, origin, pending, outcome>>

----------------------------------------------------------------------------
(* Bounds and sample texts *)

MaxFindings == 2

Severities == {"critical", "high", "medium", "low"}
SeverityMarkers == {"RED", "YELLOW", "BLUE", "ORANGE"}
Whitespace == {"SP", "NL"}

None == <<>>
Some(t) == <<t>>

Contents == { <<"a">>, <<"a", "SURROGATE">> }
Filenames == {"content.md", "README.txt"}
Messages == { <<"a">>, <<"a", "SP", "RED">>, <<"BULB", "a">> }
SuggestionTexts == { <<"b">>, <<"b", "SP", "RED">> }
StderrSamples == { <<>>, <<"a", "NL">>, <<"RED", "a">> }

----------------------------------------------------------------------------
(* str operations used by the tool *)

\* ch in line
Contains(line, ch) == \E j \in 1..Len(line) : line[j] = ch

\* line.replace(ch, '')
Remove(line, ch) ==
    LET Keep(c) == c # ch IN SelectSeq(line, Keep)

RECURSIVE LStrip(_)
LStrip(s) ==
    IF s = <<>> THEN <<>>
    ELSE IF Head(s) \in Whitespace THEN LStrip(Tail(s)) ELSE s

RECURSIVE RStrip(_)
RStrip(s) ==
    IF s = <<>> THEN <<>>
    ELSE IF s[Len(s)] \in Whitespace THEN RStrip(SubSeq(s, 1, Len(s) - 1)) ELSE s

\* s.strip()
Strip(s) == RStrip(LStrip(s))

\* text.split('\n'): always at least one element
RECURSIVE Split(_)
Split(text) ==
    IF ~Contains(text, "NL") THEN <<text>>
    ELSE LET p == CHOOSE j \in 1..Len(text) :
                     text[j] = "NL" /\ \A k \in 1..(j - 1) : text[k] # "NL"
         IN <<SubSeq(text, 1, p - 1)>> \o Split(SubSeq(text, p + 1, Len(text)))

\* f.write(content) on a text-mode file: encoding a lone surrogate raises
Encodable(text) == ~Contains(text, "SURROGATE")

----------------------------------------------------------------------------
(* The validator's side of the textual protocol (spec section 6) *)

\* one marker per severity
Marker(sev) ==
    CASE sev = "critical" -> "RED"
      [] sev = "high"     -> "YELLOW"
      [] sev = "medium"   -> "BLUE"
      [] sev = "low"      -> "ORANGE"

\* a finding of the report; placeholder findings (low) carry no suggestion
Findings ==
    { [severity |-> s, message |-> m, suggestion |-> g] :
        s \in Severities \ {"low"}, m \in Messages,
        g \in {None} \cup { Some(t) : t \in SuggestionTexts } }
    \cup { [severity |-> "low", message |-> m, suggestion |-> None] : m \in Messages }

Reports == UNION { [1..n -> Findings] : n \in 0..MaxFindings }

\* line 1: marker, blank, message; line 2 (only with a suggestion): BULB, blank, text
FormatFinding(f) ==
    <<Marker(f.severity), "SP">> \o f.message \o <<"NL">>
    \o (IF f.suggestion = None THEN <<>>
        ELSE <<"BULB", "SP">> \o f.suggestion[1] \o <<"NL">>)

RECURSIVE FormatReport(_)
FormatReport(r) ==
    IF r = <<>> THEN <<>> ELSE FormatFinding(Head(r)) \o FormatReport(Tail(r))

\* exit status: 0 with zero findings, 1 with one or more; a run that broke
\* down exits 1 as well and leaves a diagnostic on stderr
ValidatorRuns ==
    { [returncode |-> 0, report |-> <<>>, stderr |-> e] : e \in StderrSamples }
    \cup { [returncode |-> 1, report |-> r, stderr |-> e] :
             r \in Reports, e \in StderrSamples }

\* what really happened in the validator
Kind(run) ==
    IF run.returncode = 0 THEN "clean"
    ELSE IF run.stderr = <<>> /\ run.report # <<>> THEN "found"
    ELSE "could_not_run"

\* number of report lines a finding occupies
Height(f) == IF f.suggestion = None THEN 1 ELSE 2

\* index, in the rendered report, of line 1 of finding k
RECURSIVE FindingLine(_, _)
FindingLine(r, k) ==
    IF k = 1 THEN 1 ELSE FindingLine(r, k - 1) + Height(r[k - 1])

----------------------------------------------------------------------------
(* validate_content_tool *)

TempNames == {"tmp0"}

\* NamedTemporaryFile(mode='w', suffix='.md', delete=False)
TempSuffix(fn) == ".md"

\* f.write(content)
TempFileBody(c, fn) == c

\* the filename hint handed on to the validator
CommandWithFilename(path, fn) ==
    <<"node", ".github/scripts/validate-file.js", path, fn>>

\* ['node', '.github/scripts/validate-file.js', temp_path]
Command(path, fn) == <<"node", ".github/scripts/validate-file.js", path>>

\* line 52
IsIssueLine(line) ==
    \/ Contains(line, "RED")
    \/ Contains(line, "YELLOW")
    \/ Contains(line, "BLUE")
    \/ Contains(line, "ORANGE")

\* line 53
SeverityOf(line) ==
    IF Contains(line, "RED") THEN "critical"
    ELSE IF Contains(line, "YELLOW") THEN "high"
    ELSE IF Contains(line, "BLUE") THEN "medium"
    ELSE "low"

\* line 56
MessageOf(line) ==
    Strip(Remove(Remove(Remove(Remove(line, "RED"), "YELLOW"), "BLUE"), "ORANGE"))

\* a lookahead that goes on to the line after the next
SuggestionLookahead(ls, i) ==
    IF i + 1 <= Len(ls) /\ Contains(ls[i + 1], "BULB")
    THEN Some(Strip(Remove(ls[i + 1], "BULB")))
    ELSE IF i + 2 <= Len(ls) /\ Contains(ls[i + 2], "BULB")
    THEN Some(Strip(Remove(ls[i + 2], "BULB")))
    ELSE None

\* line 57, i counted from 1
SuggestionOf(ls, i) ==
    IF i + 1 <= Len(ls) /\ Contains(ls[i + 1], "BULB")
    THEN Some(Strip(Remove(ls[i + 1], "BULB")))
    ELSE None

\* lines 54-58
Issue(ls, i) ==
    [severity   |-> SeverityOf(ls[i]),
     message    |-> MessageOf(ls[i]),
     suggestion |-> SuggestionOf(ls, i)]

\* the loop of lines 51-58 from index i on: the indices that yield an issue
RECURSIVE IssueLines(_, _)
IssueLines(ls, i) ==
    IF i > Len(ls) THEN <<>>
    ELSE (IF IsIssueLine(ls[i]) THEN <<i>> ELSE <<>>) \o IssueLines(ls, i + 1)

ExtractIssues(ls) ==
    LET at == IssueLines(ls, 1) IN [k \in 1..Len(at) |-> Issue(ls, at[k])]

\* lines 39-64: the dict returned for a completed process (filename is in
\* scope, and unused)
ToolReturn(res, fn) ==
    IF res.returncode = 0
    THEN [status  |-> "pass",
          issues  |-> <<>>,
          message |-> <<"OK No validation issues found">>]
    ELSE LET issues == ExtractIssues(Split(res.stdout \o res.stderr))
         IN [status  |-> "fail",
             issues  |-> issues,
             message |-> <<"X Found ", ToString(Len(issues)), " validation issue(s)">>]

NoOutcome == [type |-> "none"]
Returned(d) == [type |-> "return", value |-> d]
Raised(e) == [type |-> "raise", exc |-> e]

Init ==
    /\ pc = "idle"
    /\ content = <<>>
    /\ filename = "content.md"
    /\ tempfiles = {}
    /\ fbody = <<>>
    /\ temp_path = <<>>
    /\ cmd = <<>>
    /\ result = <<>>
    /\ report = <<>>
    /\ lines = <<>>
    /\ origin = <<>>
    /\ pending = NoOutcome
    /\ outcome = NoOutcome

\* line 25 for given arguments and a generated name
CreateTemp(c, fn, name) ==
    /\ content' = c
    /\ filename' = fn
    /\ tempfiles' = tempfiles \cup {<<name, TempSuffix(fn)>>}
    /\ fbody' = <<>>
    /\ pc' = "opened"
    /\ UNCHANGED <<temp_path, cmd, result, report, lines, origin, pending, outcome>>

\* line 25: the call starts and NamedTemporaryFile creates the file
Call ==
    /\ pc = "idle"
    /\ \E c \in Contents, fn \in Filenames, name \in TempNames :
          CreateTemp(c, fn, name)

\* lines 26-27: the content is written and the file closed
Write ==
    /\ pc = "opened"
    /\ Encodable(content)
    /\ fbody' = TempFileBody(content, filename)
    /\ temp_path' = (CHOOSE p \in tempfiles : TRUE)
    /\ pc' = "try"
    /\ UNCHANGED <<content, filename, tempfiles, cmd, result, report, lines,
                   origin, pending, outcome>>

\* line 26 raises: the with block closes the file, the try block is never entered
WriteRaises ==
    /\ pc = "opened"
    /\ ~Encodable(content)
    /\ outcome' = Raised("UnicodeEncodeError")
    /\ pc' = "done"
    /\ UNCHANGED <<content, filename, tempfiles, fbody, temp_path, cmd, result,
                   report, lines, origin, pending>>

\* lines 31-36 for a given run of the validator
Completed(run) ==
    /\ cmd' = Command(temp_path, filename)
    /\ report' = run.report
    /\ result' = [returncode |-> run.returncode,
                  stdout     |-> FormatReport(run.report),
                  stderr     |-> run.stderr]
    /\ pc' = "parse"
    /\ UNCHANGED <<content, filename, tempfiles, fbody, temp_path, lines, origin,
                   pending, outcome>>

\* lines 31-36: the validator runs to its end
Run ==
    /\ pc = "try"
    /\ \E run \in ValidatorRuns : Completed(run)

\* lines 31-36: subprocess.run raises (node is not installed)
RunRaises ==
    /\ pc = "try"
    /\ cmd' = Command(temp_path, filename)
    /\ pending' = Raised("FileNotFoundError")
    /\ pc' = "finally"
    /\ UNCHANGED <<content, filename, tempfiles, fbody, temp_path, result, report,
                   lines, origin, outcome>>

\* lines 39-64
Return ==
    /\ pc = "parse"
    /\ lines' = (IF result.returncode = 0 THEN <<>>
                 ELSE Split(result.stdout \o result.stderr))
    /\ origin' = (IF result.returncode = 0 THEN <<>> ELSE IssueLines(lines', 1))
    /\ pending' = Returned(ToolReturn(result, filename))
    /\ pc' = "finally"
    /\ UNCHANGED <<content, filename, tempfiles, fbody, temp_path, cmd, result,
                   report, outcome>>

\* lines 65-67: os.unlink(temp_path), then the return or the exception goes on
Finally ==
    /\ pc = "finally"
    /\ tempfiles' = tempfiles \ {temp_path}
    /\ outcome' = pending
    /\ pc' = "done"
    /\ UNCHANGED <<content, filename, fbody, temp_path, cmd, result, report,
                   lines, origin, pending>>

Next ==
    \/ Call
    \/ Write
    \/ WriteRaises
    \/ Run
    \/ RunRaises
    \/ Return
    \/ Finally

Spec == Init /\ [][Next]_vars

----------------------------------------------------------------------------
(* Properties *)

\* the call returned a dict
HasReturned == pc = "done" /\ outcome.type = "return"

\* the call returned from the fail branch
HasFailed == HasReturned /\ outcome.value.status = "fail"

\* the validator ran to its end, found issues and reported them as the protocol says
FoundRun ==
    /\ HasFailed
    /\ Kind([returncode |-> result.returncode, report |-> report,
             stderr |-> result.stderr]) = "found"

Issues == outcome.value.issues

\* C1: the returned status is "fail" exactly when issues is non-empty and
\* "pass" exactly when issues is empty.
C1_FailIffIssues ==
    HasReturned =>
        /\ (outcome.value.status = "fail" <=> outcome.value.issues # <<>>)
        /\ (outcome.value.status = "pass" <=> outcome.value.issues = <<>>)

\* C2: no validator run of another kind (clean, found, could not run) gives
\* the caller the outcome that this run gave.
C2_OutcomesDistinguishable ==
    HasReturned =>
        \A v \in ValidatorRuns :
            Kind(v) # Kind([returncode |-> result.returncode, report |-> report,
                            stderr |-> result.stderr])
            => Returned(ToolReturn([returncode |-> v.returncode,
                                    stdout |-> FormatReport(v.report),
                                    stderr |-> v.stderr], filename)) # outcome

\* the text of a line without the character ch and without surrounding blanks
TrimmedWithout(l, ch) ==
    LET Keep(c) == c # ch
        nb == SelectSeq(l, Keep)
        ix == { j \in 1..Len(nb) : nb[j] \notin Whitespace }
    IN IF ix = {} THEN <<>>
       ELSE SubSeq(nb, CHOOSE j \in ix : \A m \in ix : j <= m,
                       CHOOSE j \in ix : \A m \in ix : j >= m)

\* C3: the issue built from line i has a suggestion exactly when line i+1
\* exists and contains BULB, and then it is the text of line i+1, marker
\* removed and trimmed.
C3_SuggestionIsNextLine ==
    HasFailed =>
        \A k \in 1..Len(Issues) :
            LET i == origin[k]
                next == i + 1 <= Len(lines) /\ "BULB" \in { lines[i + 1][j] : j \in 1..Len(lines[i + 1]) }
            IN /\ (Issues[k].suggestion # None <=> next)
               /\ next => Issues[k].suggestion = Some(TrimmedWithout(lines[i + 1], "BULB"))

\* an issue takes its suggestion from the next line, another one has none
\* although a later line carries BULB, and a third one is built from the last line
C3_Witness ==
    /\ HasFailed
    /\ \E k \in 1..Len(Issues) : Issues[k].suggestion # None
    /\ \E k \in 1..Len(Issues) :
          /\ Issues[k].suggestion = None
          /\ \E m \in (origin[k] + 2)..Len(lines) : Contains(lines[m], "BULB")

\* the last line of the output yields an issue
C3_LastLineCase ==
    HasFailed /\ \E k \in 1..Len(Issues) : origin[k] = Len(lines)

\* C4: every issue has one of the four severities, and the severity of an
\* issue built from a line that a marker tags is that marker's severity.
C4_SeverityOfTaggingMarker ==
    HasFailed =>
        \A k \in 1..Len(Issues) :
            /\ Issues[k].severity \in Severities
            /\ Head(lines[origin[k]]) \in SeverityMarkers
               => Marker(Issues[k].severity) = Head(lines[origin[k]])

\* C5: the issues are the findings of the report, one each, in the order of
\* the report, and the summary counts them.
C5_OneIssuePerFinding ==
    FoundRun =>
        /\ Len(Issues) = Len(report)
        /\ \A k \in 1..Len(report) :
              k <= Len(origin) => origin[k] = FindingLine(report, k)
        /\ outcome.value.message[2] = ToString(Len(report))

\* C6: the issue of a finding has the finding's message and, when the
\* finding has one, the finding's suggestion.
C6_Lossless ==
    FoundRun =>
        \A k \in 1..Len(report) :
            \E j \in 1..Len(Issues) :
                /\ origin[j] = FindingLine(report, k)
                /\ Issues[j].message = Strip(report[k].message)
                /\ report[k].suggestion # None
                   => Issues[j].suggestion = Some(Strip(report[k].suggestion[1]))

\* C7: the command, what is written to the temporary file, its suffix and
\* the returned dict are the same for every filename.
C7_FilenameUnused ==
    \A fn \in Filenames :
        /\ cmd # <<>> => cmd = Command(temp_path, fn)
        /\ temp_path # <<>> =>
              /\ temp_path[2] = TempSuffix(fn)
              /\ fbody = TempFileBody(content, fn)
        /\ pending.type = "return" => pending = Returned(ToolReturn(result, fn))

\* a call with a filename other than the default has returned issues
C7_Witness ==
    /\ HasFailed
    /\ filename # "content.md"
    /\ Issues # <<>>
    /\ cmd # <<>>

\* C8: an issue of severity low has no suggestion.
C8_PlaceholderNoSuggestion ==
    HasFailed =>
        \A k \in 1..Len(Issues) :
            Issues[k].severity = "low" => Issues[k].suggestion = None

\* C9: once the call has completed, by return or by exception, no temporary
\* file is left.
C9_TempFileDeleted == pc = "done" => tempfiles = {}

\* C10: the line an issue takes its suggestion from is not the line another
\* issue is built from.
C10_OneRolePerLine ==
    HasFailed =>
        \A k \in 1..Len(Issues) :
            Issues[k].suggestion # None
            => \A j \in 1..Len(Issues) : origin[j] # origin[k] + 1

====
